---- MODULE Spec2Model ----
(***************************************************************************)
(* A model of pylectronics: wires, drivers and rails (src/core.py),        *)
(* transistors (src/transistors.py) and the inverter (src/logic_gates.py). *)
(*                                                                         *)
(* Python objects are modelled as records.  An attribute that an object    *)
(* may lack (Wire.strength is only assigned by Wire.commit) is a set: {}   *)
(* while the attribute is absent, {s} once it holds s.  Reading an absent  *)
(* attribute raises AttributeError, recorded in the variable raised.       *)
(***************************************************************************)
EXTENDS Integers, Sequences, FiniteSets, TLC

\* Most drivers one wire gets in the wire-level specifications.
MaxDrivers == 2
\* Most drivers one rail gets in SpecRail.
MaxRailDrivers == 1
\* Strongest drive the harness applies.
MaxStrength == 1

\* Strengths handed to Driver.drive: one below the high-impedance sentinel,
\* the sentinel (-1), the weak pull (0) and the explicit drives.
Strengths == -2 .. MaxStrength

VARIABLES
    wires,      \* wire id -> Wire object
    drivers,    \* the Driver objects, in allocation order; a driver's id is its index
    raised,     \* the exception the last call raised, "none" when it returned
    last,       \* the last call: [op, wire, driver]
    comps,      \* component id -> Component object
    sim         \* the harness: its position and the scheduler's run

heapVars == <<wires, drivers, raised, last>>
vars == <<wires, drivers, raised, last, comps, sim>>

----------------------------------------------------------------------------
(* Driver                                                                  *)

\* Driver(): the class attributes value = False, strength = -1.
DriverInit == [value |-> FALSE, strength |-> -1]

DriverDrive(drv, value, strength) == [value |-> value, strength |-> strength]

DriverPull(drv, value) == DriverDrive(drv, value, 0)

DriverRelease(drv) == DriverDrive(drv, FALSE, -1)

\* Driver.connect(other): value is copied first; reading other.strength raises
\* AttributeError when other has never been committed, and strength is kept.
DriverConnect(drv, other) ==
    IF other.strength = {}
    THEN [drv |-> [value |-> other.value, strength |-> drv.strength],
          raised |-> "AttributeError"]
    ELSE [drv |-> [value |-> other.value,
                   strength |-> CHOOSE s \in other.strength : TRUE],
          raised |-> "none"]

----------------------------------------------------------------------------
(* Wire and Rail                                                           *)

\* Wire.__init__(bias): value and bias are set, drivers is empty; strength is
\* not assigned.
WireInit(bias) ==
    [bias |-> bias, value |-> bias, strength |-> {}, drivers |-> <<>>,
     rail |-> FALSE]

\* Rail(bias): Rail inherits Wire.__init__.
RailInit(bias) == [WireInit(bias) EXCEPT !.rail = TRUE]

\* One iteration of the loop of Wire.commit over driver d.
\* Mutant: an equally strong driver replaces the value seen so far.
CommitStep_LastWins(acc, d) ==
    IF d.strength < acc.strength THEN acc
    ELSE [value |-> d.value, strength |-> d.strength]

CommitStep(acc, d) ==
    IF d.strength < acc.strength THEN acc
    ELSE IF d.strength > acc.strength
         THEN [value |-> d.value, strength |-> d.strength]
         ELSE acc     \* equal strength: the conflict branch is "pass"

RECURSIVE CommitScan(_, _, _, _)
CommitScan(ds, heap, i, acc) ==
    IF i > Len(ds) THEN acc
    ELSE CommitScan(ds, heap, i + 1, CommitStep(acc, heap[ds[i]]))

\* Mutant: the scan starts at strength 0, so a weak pull no longer beats the bias.
WireCommit_StartAtZero(w, heap) ==
    LET r == CommitScan(w.drivers, heap, 1, [value |-> w.bias, strength |-> 0])
    IN  [w EXCEPT !.value = r.value, !.strength = {r.strength}]

\* Mutant: the scan keeps the wire's old value instead of starting from the bias.
WireCommit_KeepsValue(w, heap) ==
    LET r == CommitScan(w.drivers, heap, 1, [value |-> ~w.bias, strength |-> -1])
    IN  [w EXCEPT !.value = r.value, !.strength = {r.strength}]

\* Mutant: the scan starts below the high-impedance strength, so the bias
\* loses to a released driver.
WireCommit_StartBelowHiZ(w, heap) ==
    LET r == CommitScan(w.drivers, heap, 1, [value |-> w.bias, strength |-> -2])
    IN  [w EXCEPT !.value = r.value, !.strength = {r.strength}]

\* Wire.commit: returns normally in every case.
WireCommit(w, heap) ==
    LET r == CommitScan(w.drivers, heap, 1, [value |-> w.bias, strength |-> -1])
    IN  [w EXCEPT !.value = r.value, !.strength = {r.strength}]

\* Rail.commit: pass.
RailCommit(w, heap) == w

\* Dynamic dispatch of commit().
DoCommit(w, heap) == IF w.rail THEN RailCommit(w, heap) ELSE WireCommit(w, heap)

\* Wire.is_hiZ: [result, raised].
IsHiZ(w) ==
    IF w.strength = {} THEN [result |-> FALSE, raised |-> "AttributeError"]
    ELSE [result |-> (CHOOSE s \in w.strength : TRUE) < 0, raised |-> "none"]

----------------------------------------------------------------------------
(* Calls on wires and drivers                                              *)

\* The wire a driver is registered on ("none" for an unregistered driver).
OwnerOf(d) ==
    IF \E w \in DOMAIN wires : \E i \in 1 .. Len(wires[w].drivers) : wires[w].drivers[i] = d
    THEN CHOOSE w \in DOMAIN wires : \E i \in 1 .. Len(wires[w].drivers) : wires[w].drivers[i] = d
    ELSE "none"

\* w.connection()
Connection(w) ==
    /\ drivers' = Append(drivers, DriverInit)
    /\ wires' = [wires EXCEPT ![w].drivers = Append(@, Len(drivers) + 1)]
    /\ raised' = "none"
    /\ last' = [op |-> "connection", wire |-> w, driver |-> Len(drivers) + 1]
    /\ UNCHANGED <<comps, sim>>

\* d.drive(value, strength)
Drive(d, value, strength) ==
    /\ drivers' = [drivers EXCEPT ![d] = DriverDrive(@, value, strength)]
    /\ raised' = "none"
    /\ last' = [op |-> "drive", wire |-> OwnerOf(d), driver |-> d]
    /\ UNCHANGED <<wires, comps, sim>>

\* d.pull(value)
Pull(d, value) ==
    /\ drivers' = [drivers EXCEPT ![d] = DriverPull(@, value)]
    /\ raised' = "none"
    /\ last' = [op |-> "pull", wire |-> OwnerOf(d), driver |-> d]
    /\ UNCHANGED <<wires, comps, sim>>

\* d.release()
Release(d) ==
    /\ drivers' = [drivers EXCEPT ![d] = DriverRelease(@)]
    /\ raised' = "none"
    /\ last' = [op |-> "release", wire |-> OwnerOf(d), driver |-> d]
    /\ UNCHANGED <<wires, comps, sim>>

\* d.connect(other)
Connect(d, other) ==
    LET r == DriverConnect(drivers[d], wires[other])
    IN  /\ drivers' = [drivers EXCEPT ![d] = r.drv]
        /\ raised' = r.raised
        /\ last' = [op |-> "connect", wire |-> OwnerOf(d), driver |-> d]
        /\ UNCHANGED <<wires, comps, sim>>

\* w.commit()
Commit(w) ==
    /\ wires' = [wires EXCEPT ![w] = DoCommit(@, drivers)]
    /\ raised' = "none"
    /\ last' = [op |-> "commit", wire |-> w, driver |-> 0]
    /\ UNCHANGED <<drivers, comps, sim>>

----------------------------------------------------------------------------
(* SpecWire: one wire "w" of either bias next to the two rails; drivers are *)
(* allocated on w and driven arbitrarily, and any wire may be committed.    *)

RailIds == {"GROUND", "VCC"}

\* Module level of core.py: Rail.GROUND = Rail(False), Rail.VCC = Rail(True).
Rails == [r \in RailIds |-> RailInit(r = "VCC")]

NoCall == [op |-> "init", wire |-> "none", driver |-> 0]

\* No scheduler run is under way.
NoSim == [phase |-> "idle"]

InitWire ==
    /\ \E bias \in BOOLEAN :
         wires = [id \in RailIds \cup {"w"} |->
                    IF id = "w" THEN WireInit(bias) ELSE Rails[id]]
    /\ drivers = <<>>
    /\ raised = "none"
    /\ last = NoCall
    /\ comps = <<>>
    /\ sim = NoSim

\* The drivers registered on the wires of set ws.
RegisteredOn(ws) ==
    UNION {{wires[w].drivers[i] : i \in 1 .. Len(wires[w].drivers)} : w \in ws}

\* The calls a harness makes on the wires of ws and on their drivers.
WireCalls(ws, max) ==
    \/ \E w \in ws : Len(wires[w].drivers) < max /\ Connection(w)
    \/ \E d \in RegisteredOn(ws), v \in BOOLEAN, s \in Strengths : Drive(d, v, s)
    \/ \E d \in RegisteredOn(ws), v \in BOOLEAN : Pull(d, v)
    \/ \E d \in RegisteredOn(ws) : Release(d)
    \/ \E d \in RegisteredOn(ws), other \in DOMAIN wires : Connect(d, other)
    \/ \E w \in DOMAIN wires : Commit(w)

NextWire == WireCalls({"w"}, MaxDrivers)

SpecWire == InitWire /\ [][NextWire]_vars

\* SpecRail: the same calls made against the two rails.
NextRail == WireCalls(RailIds, MaxRailDrivers)

SpecRail == InitWire /\ [][NextRail]_vars

----------------------------------------------------------------------------
(* Components.  An attribute such as gate, source or drain holds a         *)
(* reference: to a Wire, or (after Inverter.elaborate) to a Driver.        *)

WireRef(id) == [wire |-> id, driver |-> 0]
DriverRef(d) == [wire |-> "none", driver |-> d]
IsWire(r) == r.driver = 0

\* The program state the methods below work on.
State(ws, ds, cs, ex) == [wires |-> ws, drivers |-> ds, comps |-> cs, raised |-> ex]

\* No exception is propagating: the next statement runs.
Ok(st) == st.raised = "none"

\* The value and strength attributes of the object behind reference r: a
\* Driver always has both, a Wire has a strength only once committed.
RefObject(st, r) ==
    IF IsWire(r) THEN st.wires[r.wire]
    ELSE [value |-> st.drivers[r.driver].value,
          strength |-> {st.drivers[r.driver].strength}]

\* r.connection(): only a Wire has the method.
RefConnection(st, r) ==
    IF IsWire(r)
    THEN [st EXCEPT !.drivers = Append(@, DriverInit),
                    !.wires[r.wire].drivers = Append(@, Len(st.drivers) + 1)]
    ELSE [st EXCEPT !.raised = "AttributeError"]

\* BaseTransistor.__init__: the three wires it creates ...
TransistorWires(name) ==
    [id \in {name \o ".gate", name \o ".source", name \o ".drain"} |-> WireInit(FALSE)]

\* ... and the object, with its not yet registered driver d.
TransistorInit(class, name, d) ==
    [class |-> class,
     gate |-> WireRef(name \o ".gate"),
     source |-> WireRef(name \o ".source"),
     drain |-> WireRef(name \o ".drain"),
     drain_driver |-> d]

\* BaseTransistor.elaborate: self._drain_driver = self.drain.connection()
TransistorElaborate(st, t) ==
    LET r == RefConnection(st, st.comps[t].drain)
    IN  IF r.raised = "none"
        THEN [r EXCEPT !.comps[t].drain_driver = Len(r.drivers)]
        ELSE r

\* Python's a < b on bools.
BoolLess(a, b) == ~a /\ b

\* The condition of PChanTransistor.prepare / NChanTransistor.prepare.
Conducts(class, gate, source) ==
    IF class = "PChan" THEN BoolLess(gate.value, source.value)
    ELSE BoolLess(source.value, gate.value)

\* Mutant: _drain_driver is one attribute shared by all transistors (the
\* driver allocated last), not one per transistor.
TransistorPrepare_SharedDriver(st, t) ==
    LET c == st.comps[t]
        d == Len(st.drivers)
        source == RefObject(st, c.source)
    IN  IF Conducts(c.class, RefObject(st, c.gate), source)
        THEN LET r == DriverConnect(st.drivers[d], source)
             IN  [st EXCEPT !.drivers[d] = r.drv, !.raised = r.raised]
        ELSE [st EXCEPT !.drivers[d] = DriverRelease(@)]

\* PChanTransistor.prepare / NChanTransistor.prepare
TransistorPrepare(st, t) ==
    LET c == st.comps[t]
        source == RefObject(st, c.source)
    IN  IF Conducts(c.class, RefObject(st, c.gate), source)
        THEN LET r == DriverConnect(st.drivers[c.drain_driver], source)
             IN  [st EXCEPT !.drivers[c.drain_driver] = r.drv, !.raised = r.raised]
        ELSE [st EXCEPT !.drivers[c.drain_driver] = DriverRelease(@)]

Now == State(wires, drivers, comps, "none")

\* t.prepare()
Prepare(t) ==
    LET r == TransistorPrepare(Now, t)
    IN  /\ drivers' = r.drivers
        /\ raised' = r.raised
        /\ last' = [op |-> "prepare", wire |-> "none", driver |-> comps[t].drain_driver]
        /\ UNCHANGED <<wires, comps, sim>>

\* t.elaborate() on a transistor
ElaborateTransistor(t) ==
    LET r == TransistorElaborate(Now, t)
    IN  /\ wires' = r.wires
        /\ drivers' = r.drivers
        /\ comps' = r.comps
        /\ raised' = r.raised
        /\ last' = [op |-> "elaborate", wire |-> "none", driver |-> r.comps[t].drain_driver]
        /\ UNCHANGED sim

----------------------------------------------------------------------------
(* SpecTran: one transistor "t" of either class.  Its gate is wire "g", its *)
(* source is wire "s" (which the harness drives through one driver) or a    *)
(* rail, its drain is the wire it was constructed with.                     *)

\* Most calls of elaborate() on the transistor.
MaxElaborations == 2

InitTran ==
    \E class \in {"NChan", "PChan"}, bg \in BOOLEAN, bs \in BOOLEAN,
       src \in {"s", "GROUND", "VCC"} :
        /\ wires = [[id \in {"g", "s"} |-> WireInit(IF id = "g" THEN bg ELSE bs)]
                        @@ TransistorWires("t") @@ Rails
                    EXCEPT !["s"].drivers = <<2>>]
        /\ drivers = <<DriverInit, DriverInit>>
        /\ comps = [id \in {"t"} |->
                      [TransistorInit(class, "t", 1)
                         EXCEPT !.gate = WireRef("g"), !.source = WireRef(src)]]
        /\ raised = "none"
        /\ last = NoCall
        /\ sim = NoSim

NextTran ==
    \/ \E d \in RegisteredOn({"s"}), v \in BOOLEAN, x \in -1 .. MaxStrength : Drive(d, v, x)
    \/ \E w \in {"g", "s"} : Commit(w)
    \/ Len(wires["t.drain"].drivers) < MaxElaborations /\ ElaborateTransistor("t")
    \/ Prepare("t")

SpecTran == InitTran /\ [][NextTran]_vars

----------------------------------------------------------------------------
(* Inverter, and the traversals of Component                               *)

\* Inverter.__init__: the wires it creates (its transistors' included) ...
InverterWires(name) ==
    [id \in {name \o ".input", name \o ".output"} |-> WireInit(FALSE)]
        @@ TransistorWires(name \o ".ntran") @@ TransistorWires(name \o ".ptran")

\* ... and the objects; d and d + 1 are the transistors' unregistered drivers.
InverterInit(name, d) ==
    [id \in {name, name \o ".ntran", name \o ".ptran"} |->
        IF id = name
        THEN [class |-> "Inverter",
              ntran |-> name \o ".ntran", ptran |-> name \o ".ptran",
              input |-> WireRef(name \o ".input"),
              output |-> WireRef(name \o ".output")]
        ELSE IF id = name \o ".ntran"
             THEN TransistorInit("NChan", id, d)
             ELSE TransistorInit("PChan", id, d + 1)]

\* Inverter.elaborate, statement by statement.  Line 60 stores the Driver
\* that output.connection() returns in ntran.drain, line 61 stores a second
\* one in ptran.gate; ntran.elaborate() then calls connection() on a Driver.
InverterElaborate(st, i) ==
    LET c  == st.comps[i]
        s1 == [st EXCEPT !.comps[c.ntran].source = WireRef("GROUND"),
                         !.comps[c.ptran].source = WireRef("VCC")]
        s2 == [s1 EXCEPT !.comps[c.ntran].gate = c.input,
                         !.comps[c.ptran].gate = c.input]
        s3 == RefConnection(s2, c.output)
        s4 == IF Ok(s3)
              THEN [s3 EXCEPT !.comps[c.ntran].drain = DriverRef(Len(s3.drivers))]
              ELSE s3
        s5 == IF Ok(s4) THEN RefConnection(s4, c.output) ELSE s4
        s6 == IF Ok(s5)
              THEN [s5 EXCEPT !.comps[c.ptran].gate = DriverRef(Len(s5.drivers))]
              ELSE s5
        s7 == IF Ok(s6) THEN TransistorElaborate(s6, c.ntran) ELSE s6
    IN  IF Ok(s7) THEN TransistorElaborate(s7, c.ptran) ELSE s7

IsTransistor(c) == c.class \in {"NChan", "PChan"}

\* elaborate() of a child of a composite: a transistor or an inverter.
ChildElaborate(st, id) ==
    IF IsTransistor(st.comps[id]) THEN TransistorElaborate(st, id)
    ELSE InverterElaborate(st, id)

\* A harness-defined composite (class "Circuit") holding inverters or
\* transistors: its elaborate() elaborates each child in turn, as spec
\* section 4.3 requires.
RECURSIVE ElaborateChildren(_, _, _)
ElaborateChildren(st, kids, k) ==
    IF k > Len(kids) THEN st
    ELSE ElaborateChildren(IF Ok(st) THEN ChildElaborate(st, kids[k]) ELSE st,
                           kids, k + 1)

\* c.elaborate(), dispatched on the class.
ComponentElaborate(st, id) ==
    IF IsTransistor(st.comps[id]) THEN TransistorElaborate(st, id)
    ELSE IF st.comps[id].class = "Inverter" THEN InverterElaborate(st, id)
    ELSE ElaborateChildren(st, st.comps[id].children, 1)

\* c.subcomponents()
Subcomponents(cs, id) ==
    IF IsTransistor(cs[id]) THEN <<>>
    ELSE IF cs[id].class = "Inverter" THEN <<cs[id].ntran, cs[id].ptran>>
    ELSE cs[id].children

\* Mutant: self and the direct children only.
SubcomponentsRecursive_Shallow(cs, id) == <<id>> \o Subcomponents(cs, id)

\* Component.subcomponents_recursive: self, then each child's expansion.
RECURSIVE SubcomponentsRecursive(_, _)
SubcomponentsRecursive(cs, id) ==
    LET kids == Subcomponents(cs, id)
        F[k \in 0 .. Len(kids)] ==
            IF k = 0 THEN <<id>> ELSE F[k - 1] \o SubcomponentsRecursive(cs, kids[k])
    IN  F[Len(kids)]

\* c.own_wires(): gate and source for a transistor, input for an Inverter,
\* nothing for the harness composite.
OwnWires(cs, id) ==
    IF IsTransistor(cs[id]) THEN <<cs[id].gate, cs[id].source>>
    ELSE IF cs[id].class = "Inverter" THEN <<cs[id].input>>
    ELSE <<>>

\* Component.wires: own_wires() of every component of the traversal.
ComponentWires(cs, id) ==
    LET all == SubcomponentsRecursive(cs, id)
        F[k \in 0 .. Len(all)] ==
            IF k = 0 THEN <<>> ELSE F[k - 1] \o OwnWires(cs, all[k])
    IN  F[Len(all)]

Range(f) == {f[i] : i \in DOMAIN f}

\* The components whose prepare() has logic of its own (virtual is False).
Primitives(cs, id) == {c \in Range(SubcomponentsRecursive(cs, id)) : IsTransistor(cs[c])}

----------------------------------------------------------------------------
(* The scheduler of spec section 4.4 (the repository has no run loop): a    *)
(* round prepares every primitive component in any order, then commits      *)
(* every distinct wire of root.wires() in any order, then compares each     *)
(* wire's (value, strength) with what it was before the round.  An          *)
(* exception raised by a call of the round propagates out of run().         *)

\* Most rounds a run is allowed.
MaxRounds == 3

\* (value, strength) of every object root.wires() yields.
Snapshot(st, refs) ==
    [r \in refs |-> <<RefObject(st, r).value, RefObject(st, r).strength>>]

\* The round that starts in state st.
StartRound(st, s, n) ==
    [s EXCEPT !.phase = "prepare", !.round = n,
              !.todoC = Primitives(st.comps, s.root),
              !.todoW = {},
              !.before = Snapshot(st, Range(ComponentWires(st.comps, s.root)))]

\* The harness calls root.elaborate().
ElaborateRoot ==
    /\ sim.phase = "built"
    /\ LET r == ComponentElaborate(Now, sim.root)
       IN  /\ wires' = r.wires
           /\ drivers' = r.drivers
           /\ comps' = r.comps
           /\ raised' = r.raised
           /\ sim' = [sim EXCEPT !.phase = IF r.raised = "none" THEN "elaborated"
                                           ELSE "elaborate_raised"]
    /\ last' = [op |-> "elaborate", wire |-> "none", driver |-> 0]

\* The harness calls run(cap) on the elaborated root.
Run ==
    /\ sim.phase = "elaborated"
    /\ sim' = [StartRound(Now, sim, 1) EXCEPT !.runs = 1]
    /\ last' = [op |-> "run", wire |-> "none", driver |-> 0]
    /\ UNCHANGED <<wires, drivers, comps, raised>>

\* The harness calls run(cap) again on a circuit the first run left stable,
\* having changed nothing; final remembers the wires the first run left.
Rerun ==
    /\ sim.phase = "stable"
    /\ sim.runs = 1
    /\ sim' = [StartRound(Now, sim, 1) EXCEPT !.runs = 2, !.final = wires]
    /\ last' = [op |-> "run", wire |-> "none", driver |-> 0]
    /\ UNCHANGED <<wires, drivers, comps, raised>>

\* Evaluation phase: prepare() of one more primitive component.
PrepareOne(t) ==
    /\ sim.phase = "prepare"
    /\ t \in sim.todoC
    /\ LET r == TransistorPrepare(Now, t)
       IN  /\ drivers' = r.drivers
           /\ raised' = r.raised
           /\ sim' = IF r.raised # "none" THEN [sim EXCEPT !.phase = "run_raised"]
                     ELSE IF sim.todoC = {t}
                          THEN [sim EXCEPT !.phase = "commit", !.todoC = {},
                                           !.todoW = Range(ComponentWires(comps, sim.root))]
                          ELSE [sim EXCEPT !.todoC = @ \ {t}]
    /\ last' = [op |-> "prepare", wire |-> "none", driver |-> comps[t].drain_driver]
    /\ UNCHANGED <<wires, comps>>

\* Resolution phase: commit() of one more wire (a Driver has no commit()).
CommitOne(r) ==
    /\ sim.phase = "commit"
    /\ r \in sim.todoW
    /\ IF IsWire(r)
       THEN /\ wires' = [wires EXCEPT ![r.wire] = DoCommit(@, drivers)]
            /\ raised' = "none"
            /\ sim' = [sim EXCEPT !.todoW = @ \ {r}]
       ELSE /\ raised' = "AttributeError"
            /\ sim' = [sim EXCEPT !.phase = "run_raised"]
            /\ UNCHANGED wires
    /\ last' = [op |-> "commit", wire |-> r.wire, driver |-> 0]
    /\ UNCHANGED <<drivers, comps>>

\* Mutant: the check is inverted, a round that changed a wire counts as stable.
EndRound_Inverted ==
    /\ sim.phase = "commit"
    /\ sim.todoW = {}
    /\ sim' = IF Snapshot(Now, DOMAIN sim.before) # sim.before
              THEN [sim EXCEPT !.phase = "stable"]
              ELSE IF sim.round = sim.cap
                   THEN [sim EXCEPT !.phase = "nonconvergent"]
                   ELSE StartRound(Now, sim, sim.round + 1)
    /\ last' = [op |-> "check", wire |-> "none", driver |-> 0]
    /\ UNCHANGED <<wires, drivers, comps, raised>>

\* Convergence check at the end of a round.
EndRound ==
    /\ sim.phase = "commit"
    /\ sim.todoW = {}
    /\ sim' = IF Snapshot(Now, DOMAIN sim.before) = sim.before
              THEN [sim EXCEPT !.phase = "stable"]
              ELSE IF sim.round = sim.cap
                   THEN [sim EXCEPT !.phase = "nonconvergent"]
                   ELSE StartRound(Now, sim, sim.round + 1)
    /\ last' = [op |-> "check", wire |-> "none", driver |-> 0]
    /\ UNCHANGED <<wires, drivers, comps, raised>>

\* The fields of sim while a circuit is simulated.
Built(scenario, x, root, cap) ==
    [phase |-> "built", scenario |-> scenario, x |-> x, root |-> root, cap |-> cap,
     round |-> 0, todoC |-> {}, todoW |-> {}, before |-> <<>>,
     runs |-> 0, final |-> <<>>]

----------------------------------------------------------------------------
(* SpecSim: the circuits a harness builds, elaborates and runs.            *)

\* A single transistor "t": its gate is wire "a", its source wire "b" or a
\* rail, its drain wire "a" (feedback) or the wire it was constructed with.
\* The harness drives "a" and "b" through one driver each.
InitTransistorCircuit ==
    \E class \in {"NChan", "PChan"}, ba \in BOOLEAN, bb \in BOOLEAN,
       da \in {<<FALSE, -1>>, <<FALSE, 1>>, <<TRUE, 1>>},
       db \in {<<FALSE, -1>>, <<FALSE, 1>>, <<TRUE, 1>>},
       src \in {"b", "GROUND", "VCC"}, drn \in {"a", "t.drain"},
       cap \in 1 .. MaxRounds :
        /\ wires = [[id \in {"a", "b"} |-> WireInit(IF id = "a" THEN ba ELSE bb)]
                        @@ TransistorWires("t") @@ Rails
                    EXCEPT !["a"].drivers = <<2>>, !["b"].drivers = <<3>>]
        /\ drivers = <<DriverInit,
                       DriverDrive(DriverInit, da[1], da[2]),
                       DriverDrive(DriverInit, db[1], db[2])>>
        /\ comps = [id \in {"t"} |->
                      [TransistorInit(class, "t", 1)
                         EXCEPT !.gate = WireRef("a"), !.source = WireRef(src),
                                !.drain = WireRef(drn)]]
        /\ sim = Built("transistor", ba, "t", cap)

\* Two transistors "t1" and "t2" of any classes under a harness composite
\* "top"; both have gate "a" and source "b", each drives the drain wire it
\* was constructed with.
InitPair ==
    \E c1 \in {"NChan", "PChan"}, c2 \in {"NChan", "PChan"},
       ba \in BOOLEAN, bb \in BOOLEAN,
       da \in {<<FALSE, -1>>, <<FALSE, 1>>, <<TRUE, 1>>},
       db \in {<<FALSE, -1>>, <<FALSE, 1>>, <<TRUE, 1>>},
       cap \in 1 .. MaxRounds :
        /\ wires = [[id \in {"a", "b"} |-> WireInit(IF id = "a" THEN ba ELSE bb)]
                        @@ TransistorWires("t1") @@ TransistorWires("t2") @@ Rails
                    EXCEPT !["a"].drivers = <<3>>, !["b"].drivers = <<4>>]
        /\ drivers = <<DriverInit, DriverInit,
                       DriverDrive(DriverInit, da[1], da[2]),
                       DriverDrive(DriverInit, db[1], db[2])>>
        /\ comps = [id \in {"t1", "t2", "top"} |->
                      IF id = "top"
                      THEN [class |-> "Circuit", children |-> <<"t1", "t2">>]
                      ELSE [TransistorInit(IF id = "t1" THEN c1 ELSE c2, id,
                                           IF id = "t1" THEN 1 ELSE 2)
                              EXCEPT !.gate = WireRef("a"), !.source = WireRef("b")]]
        /\ sim = Built("pair", ba, "top", cap)

\* n inverters under a harness composite "top" (a lone inverter is the root
\* itself); the first input is a wire of bias x, each further input is the
\* previous inverter's output wire, and in a ring the first input is the
\* last inverter's output wire.
InverterName(k) == IF k = 1 THEN "i1" ELSE IF k = 2 THEN "i2" ELSE "i3"

InitInverters(scenario, n, ring) ==
    \E x \in BOOLEAN, cap \in 1 .. MaxRounds :
        LET made == [k \in 1 .. n |-> InverterInit(InverterName(k), 2 * k - 1)]
            all  == IF n = 1 THEN made[1]
                    ELSE IF n = 2 THEN made[1] @@ made[2]
                    ELSE made[1] @@ made[2] @@ made[3]
            prev(k) == IF k = 1 THEN (IF ring THEN WireRef(InverterName(n) \o ".output")
                                      ELSE WireRef("in"))
                       ELSE WireRef(InverterName(k - 1) \o ".output")
            wired == [id \in DOMAIN all |->
                        IF \E k \in 1 .. n : id = InverterName(k)
                        THEN [all[id] EXCEPT !.input =
                                 prev(CHOOSE k \in 1 .. n : id = InverterName(k))]
                        ELSE all[id]]
            top == [id \in {"top"} |->
                      [class |-> "Circuit", children |-> [k \in 1 .. n |-> InverterName(k)]]]
        IN  /\ wires = [id \in {"in"} |-> WireInit(x)] @@ Rails
                         @@ InverterWires("i1")
                         @@ (IF n >= 2 THEN InverterWires("i2") ELSE <<>>)
                         @@ (IF n >= 3 THEN InverterWires("i3") ELSE <<>>)
            /\ drivers = [d \in 1 .. 2 * n |-> DriverInit]
            /\ comps = IF n = 1 THEN wired ELSE wired @@ top
            /\ sim = Built(scenario, x, IF n = 1 THEN "i1" ELSE "top", cap)

InitSim ==
    /\ \/ InitTransistorCircuit
       \/ InitPair
       \/ InitInverters("inverter", 1, FALSE)
       \/ InitInverters("chain", 2, FALSE)
       \/ InitInverters("ring", 3, TRUE)
    /\ raised = "none"
    /\ last = NoCall

NextSim ==
    \/ ElaborateRoot
    \/ Run
    \/ Rerun
    \/ \E t \in DOMAIN comps : PrepareOne(t)
    \/ \E r \in sim.todoW : CommitOne(r)
    \/ EndRound

SpecSim == InitSim /\ [][NextSim]_vars

----------------------------------------------------------------------------
(* Claims about Wire.commit and the rails                                  *)

\* The strengths and values of the drivers registered on wire w, in order.
DriverStates(w) == [i \in 1 .. Len(wires[w].drivers) |-> drivers[wires[w].drivers[i]]]

Max(S) == CHOOSE m \in S : \A x \in S : x <= m

\* The greatest strength among the implicit bias driver and the explicit ones.
TopStrength(w) == Max({-1} \cup {DriverStates(w)[i].strength : i \in DOMAIN DriverStates(w)})

\* The explicit drivers of w that attain that strength.
TopDrivers(w) == {i \in DOMAIN DriverStates(w) : DriverStates(w)[i].strength = TopStrength(w)}

\* Wire w (not a rail) has just been committed.
Committed(w) == last.op = "commit" /\ last.wire = w /\ ~wires[w].rail

\* C1: after Wire.commit the wire's strength is the greatest strength among
\* the bias (strength -1) and the explicit drivers, and when exactly one of
\* them attains it the wire's value is that one's value.
C1_CommitPicksStrongest ==
    \A w \in DOMAIN wires :
        Committed(w) =>
            /\ wires[w].strength = {TopStrength(w)}
            /\ (TopStrength(w) = -1 /\ TopDrivers(w) = {}) => wires[w].value = wires[w].bias
            /\ (TopStrength(w) > -1 /\ Cardinality(TopDrivers(w)) = 1) =>
                   \A i \in TopDrivers(w) : wires[w].value = DriverStates(w)[i].value

\* A committed wire with two drivers of different strengths, the stronger one
\* second and opposing the bias, has taken the stronger driver's value.
C1_Witness ==
    /\ Committed("w")
    /\ Len(wires["w"].drivers) = 2
    /\ DriverStates("w")[1].strength = 0
    /\ DriverStates("w")[2].strength = 1
    /\ DriverStates("w")[1].value = wires["w"].bias
    /\ DriverStates("w")[2].value # wires["w"].bias
    /\ wires["w"].value = DriverStates("w")[2].value

\* C2: a wire without drivers commits to its bias at strength -1.
C2_UndrivenIsBias ==
    \A w \in DOMAIN wires :
        (Committed(w) /\ wires[w].drivers = <<>>) =>
            wires[w].value = wires[w].bias /\ wires[w].strength = {-1}

\* A driverless wire of bias true has been committed for the first time
\* (before the call it had no strength at all).
C2_Witness ==
    /\ Committed("w")
    /\ wires["w"].drivers = <<>>
    /\ wires["w"].bias
    /\ wires["w"].strength = {-1}

\* Two or more explicit drivers of w share the greatest strength and disagree.
Contention(w) ==
    \E i, j \in TopDrivers(w) : DriverStates(w)[i].value # DriverStates(w)[j].value

\* C3: a commit that finds equally strong, disagreeing drivers at the greatest
\* strength reports a ContentionError to its caller.
C3_ContentionReported ==
    \A w \in DOMAIN wires :
        (Committed(w) /\ Contention(w)) => raised = "ContentionError"

\* C4: whatever is done to a rail and its drivers, GROUND stays false, VCC
\* stays true, and each rail has a defined, non-high-impedance strength.
C4_RailsFixed ==
    \A r \in RailIds :
      (last.op # "init" /\ last.wire = r) =>
        /\ wires[r].value = (r = "VCC")
        /\ wires[r].strength # {}
        /\ \A s \in wires[r].strength : s >= 0

\* The part of C4 the code keeps: a rail's value never moves.
RailValuesFixed == \A r \in RailIds : wires[r].value = (r = "VCC")

----------------------------------------------------------------------------
(* Claims about the transistors                                            *)

\* Transistor t has just run prepare().
Prepared(t) == last.op = "prepare" /\ last.driver = comps[t].drain_driver

\* The drain driver holds exactly the resolved state of wire w.
AdoptedFrom(d, w) == w.strength # {} /\ w.strength = {d.strength} /\ w.value = d.value

\* C5: prepare() leaves the drain driver with the source wire's resolved
\* (value, strength) when the transistor conducts (N-channel: gate true and
\* source false; P-channel: gate false and source true) and released,
\* (false, -1), otherwise.
C5_PrepareConductsOrReleases ==
    \A t \in DOMAIN comps :
        Prepared(t) =>
            LET c == comps[t]
                g == wires[c.gate.wire].value
                src == wires[c.source.wire]
                d == drivers[c.drain_driver]
                on == IF c.class = "NChan" THEN g /\ ~src.value ELSE ~g /\ src.value
            IN  IF on THEN AdoptedFrom(d, src) /\ raised = "none"
                ELSE d = [value |-> FALSE, strength |-> -1]

\* What holds of the code: the same, for a source wire that has been committed.
PrepareOnCommittedSource ==
    \A t \in DOMAIN comps :
        (Prepared(t) /\ wires[comps[t].source.wire].strength # {}) =>
            LET c == comps[t]
                g == wires[c.gate.wire].value
                src == wires[c.source.wire]
                d == drivers[c.drain_driver]
                on == IF c.class = "NChan" THEN g /\ ~src.value ELSE ~g /\ src.value
            IN  IF on THEN AdoptedFrom(d, src) /\ raised = "none"
                ELSE d = [value |-> FALSE, strength |-> -1]

\* A P-channel transistor has adopted a weakly pulled true source.
ConductingWeakSource ==
    /\ Prepared("t")
    /\ comps["t"].class = "PChan"
    /\ wires[comps["t"].source.wire].strength = {0}
    /\ drivers[comps["t"].drain_driver] = [value |-> TRUE, strength |-> 0]

----------------------------------------------------------------------------
(* Claims about elaboration and the scheduler                              *)

\* run() has been called.
Running == sim.phase \in {"prepare", "commit", "stable", "nonconvergent", "run_raised"}

\* The harness has nothing left to do: elaborate() or run() raised, or run()
\* returned.
Finished == sim.phase \in {"elaborate_raised", "run_raised", "stable", "nonconvergent"}

\* The wires root.wires() yields.
RootWires == Range(ComponentWires(comps, sim.root))

\* C6: run(max_rounds) ends within max_rounds rounds in exactly one of
\* Stable and NonConvergent: Stable after a round that changed no wire,
\* NonConvergent after max_rounds rounds that each changed one.
C6_RunEndsStableOrNonConvergent ==
    Running =>
        /\ sim.round \in 1 .. sim.cap
        /\ sim.phase # "run_raised"
        /\ sim.phase = "stable" => Snapshot(Now, RootWires) = sim.before
        /\ sim.phase = "nonconvergent" =>
               sim.round = sim.cap /\ Snapshot(Now, RootWires) # sim.before

\* C7: an inverter whose input is held true ends stable within two rounds
\* with its output false.
C7_InverterOfTrue ==
    (sim.phase # "idle" /\ sim.scenario = "inverter" /\ sim.x /\ Finished) =>
        /\ sim.phase = "stable"
        /\ sim.round <= 2
        /\ ~RefObject(Now, comps["i1"].output).value

\* C8: two inverters in a chain end stable with the second output equal to
\* the first input.
C8_DoubleInverter ==
    (sim.phase # "idle" /\ sim.scenario = "chain" /\ Finished) =>
        /\ sim.phase = "stable"
        /\ RefObject(Now, comps["i2"].output).value = sim.x

\* C9: a ring of three inverters never has a round without a change, so
\* every run of it ends NonConvergent at the round cap.
C9_RingNeverSettles ==
    (sim.phase # "idle" /\ sim.scenario = "ring" /\ Finished) =>
        sim.phase = "nonconvergent" /\ sim.round = sim.cap

\* Driver d is registered on wire w.
RegisteredAt(d, w) == \E i \in 1 .. Len(wires[w].drivers) : wires[w].drivers[i] = d

\* C10: after root.elaborate(), root.wires() holds every wire of the
\* circuit: the gate and source every transistor reads and every wire a
\* transistor's drain driver is registered on.
C10_WiresComplete ==
    sim.phase = "elaborated" =>
        \A t \in Primitives(comps, sim.root) :
            /\ comps[t].gate \in RootWires
            /\ comps[t].source \in RootWires
            /\ \A w \in DOMAIN wires :
                   RegisteredAt(comps[t].drain_driver, w) => WireRef(w) \in RootWires

\* What holds of the code: root.wires() holds the wires the transistors read.
WiresHoldInputs ==
    sim.phase = "elaborated" =>
        \A t \in Primitives(comps, sim.root) :
            comps[t].gate \in RootWires /\ comps[t].source \in RootWires

----------------------------------------------------------------------------
(* Claims about the order of the calls within a round                      *)

\* The orders in which the members of S can be taken.
Orders(S) ==
    {p \in [1 .. Cardinality(S) -> S] : \A i, j \in DOMAIN p : p[i] = p[j] => i = j}

\* prepare() of the transistors p[k], p[k+1], ... in that order.
RECURSIVE PrepareInOrder(_, _, _)
PrepareInOrder(st, p, k) ==
    IF k > Len(p) THEN st ELSE PrepareInOrder(TransistorPrepare(st, p[k]), p, k + 1)

\* commit() of the wires p[k], p[k+1], ... in that order.
RECURSIVE CommitInOrder(_, _, _)
CommitInOrder(st, p, k) ==
    IF k > Len(p) THEN st
    ELSE CommitInOrder([st EXCEPT !.wires[p[k].wire] = DoCommit(@, st.drivers)], p, k + 1)

\* C11: in a round, every order of the prepare() calls over the primitive
\* components leaves the same drivers, and every order of the commit() calls
\* over the wires, made after all the prepare() calls, leaves the same wires.
C11_OrderIndependent ==
    /\ (sim.phase = "prepare" /\ sim.todoC = Primitives(comps, sim.root)) =>
           \A p, q \in Orders(sim.todoC) :
               PrepareInOrder(Now, p, 1).drivers = PrepareInOrder(Now, q, 1).drivers
    /\ (sim.phase = "commit" /\ sim.todoW = RootWires) =>
           /\ \A p \in Orders(Primitives(comps, sim.root)) :
                  drivers = PrepareInOrder(Now, p, 1).drivers
           /\ \A p, q \in Orders(sim.todoW) :
                  CommitInOrder(Now, p, 1).wires = CommitInOrder(Now, q, 1).wires
    /\ (sim.phase = "commit" /\ sim.todoW = {}) =>
           \A p \in Orders(RootWires) : wires = CommitInOrder(Now, p, 1).wires

\* A round of the two-transistor circuit is complete: the N-channel one
\* conducted, the P-channel one released, and both wires are committed.
C11_Witness ==
    /\ sim.phase = "commit"
    /\ sim.scenario = "pair"
    /\ sim.todoW = {}
    /\ comps["t1"].class = "NChan"
    /\ comps["t2"].class = "PChan"
    /\ drivers[comps["t1"].drain_driver] = [value |-> FALSE, strength |-> 1]
    /\ drivers[comps["t2"].drain_driver] = [value |-> FALSE, strength |-> -1]
    /\ wires["a"].strength = {1}
    /\ wires["b"].strength = {1}

----------------------------------------------------------------------------
(* Claims about a second run                                               *)

\* C12: a second run of a circuit the first run left stable, nothing having
\* been changed in between, changes no wire in its first round and ends
\* stable there, every wire as the first run left it.
C12_RerunIsStable ==
    (sim.phase # "idle" /\ sim.runs = 2) =>
        /\ sim.round = 1
        /\ sim.phase \in {"prepare", "commit", "stable"}
        /\ \A w \in DOMAIN wires :
               wires[w].value = sim.final[w].value
                   /\ wires[w].strength = sim.final[w].strength

\* The second run of the two-transistor circuit has ended stable, with the
\* first transistor conducting.
C12_Witness ==
    /\ sim.phase = "stable"
    /\ sim.scenario = "pair"
    /\ sim.runs = 2
    /\ drivers[comps["t1"].drain_driver].strength = 1

----------------------------------------------------------------------------
(* Claims about elaborating twice and about the Driver calls               *)

\* C13: a second elaborate() of a component is an ElaborationError and
\* registers nothing: a transistor's drain wire never carries more than the
\* one driver of that transistor.
C13_ElaborateOnce ==
    \A t \in DOMAIN comps :
        /\ Len(wires[comps[t].drain.wire].drivers) <= 1
        /\ (last.op = "elaborate" /\ raised = "none") =>
               wires[comps[t].drain.wire].drivers = <<comps[t].drain_driver>>

\* C14: drive() rejects a strength below -1 with an InvalidStrengthError and
\* leaves the driver alone, so no driver ever has a strength below -1.
C14_StrengthAtLeastHiZ ==
    \A d \in 1 .. Len(drivers) : drivers[d].strength >= -1

Released == [value |-> FALSE, strength |-> -1]

\* C15: pull(v) leaves the driver as drive(v, 0) does, release() as
\* drive(false, -1) does, connect(w) with exactly w's resolved
\* (value, strength), and connection() returns a released driver.
C15_DriverCalls ==
    [][\A d \in 1 .. Len(drivers) :
          /\ \A v \in BOOLEAN :
                 Pull(d, v) => drivers'[d] = DriverDrive(drivers[d], v, 0)
          /\ Release(d) => drivers'[d] = DriverDrive(drivers[d], FALSE, -1)
          /\ \A w \in DOMAIN wires :
                 Connect(d, w) =>
                     /\ raised' = "none"
                     /\ wires[w].strength = {drivers'[d].strength}
                     /\ wires[w].value = drivers'[d].value
          /\ \A w \in DOMAIN wires :
                 Connection(w) => drivers'[Len(drivers')] = Released]_vars

\* What holds of the code: the same, with connect(w) on a wire that has
\* been committed.
DriverCallsOnCommittedWire ==
    [][\A d \in 1 .. Len(drivers) :
          /\ \A v \in BOOLEAN :
                 Pull(d, v) => drivers'[d] = DriverDrive(drivers[d], v, 0)
          /\ Release(d) => drivers'[d] = DriverDrive(drivers[d], FALSE, -1)
          /\ \A w \in DOMAIN wires :
                 (Connect(d, w) /\ wires[w].strength # {}) =>
                     /\ raised' = "none"
                     /\ wires[w].strength = {drivers'[d].strength}
                     /\ wires[w].value = drivers'[d].value
          /\ \A w \in DOMAIN wires :
                 Connection(w) => drivers'[Len(drivers')] = Released]_vars

----------------------------------------------------------------------------
(* Claims about the frame of prepare() and commit()                        *)

\* C16: once the root is elaborated no step of a run changes a wire's driver
\* list or allocates a driver; prepare() changes nothing but the
\* (value, strength) of the transistor's own drain driver; a wire's value or
\* strength changes only in that wire's own commit(), which changes no driver.
C16_FixedTopologyAndFrames ==
    [][sim.phase # "built" =>
          /\ DOMAIN wires' = DOMAIN wires
          /\ \A w \in DOMAIN wires : wires'[w].drivers = wires[w].drivers
          /\ Len(drivers') = Len(drivers)
          /\ last'.op = "prepare" =>
                 /\ wires' = wires
                 /\ \A d \in 1 .. Len(drivers) :
                        d # last'.driver => drivers'[d] = drivers[d]
          /\ last'.op # "prepare" => drivers' = drivers
          /\ \A w \in DOMAIN wires :
                 (wires'[w].value # wires[w].value
                      \/ wires'[w].strength # wires[w].strength) =>
                     last'.op = "commit" /\ last'.wire = w]_vars

\* A commit() has just moved a wire off its bias while some transistor's
\* drain driver, set by an earlier prepare(), conducts.
C16_Witness ==
    /\ last.op = "commit"
    /\ sim.phase = "commit"
    /\ sim.round >= 2
    /\ ~wires[last.wire].rail
    /\ wires[last.wire].value # wires[last.wire].bias
    /\ \E t \in Primitives(comps, sim.root) :
           drivers[comps[t].drain_driver].strength >= 0

----------------------------------------------------------------------------
(* Claims about ties, the traversal and high impedance                     *)

Min(S) == CHOOSE m \in S : \A x \in S : m <= x

\* The greatest strength on w is attained more than once, the implicit bias
\* driver (strength -1, scanned before every explicit driver) included.
Tied(w) ==
    Cardinality(TopDrivers(w)) + (IF TopStrength(w) = -1 THEN 1 ELSE 0) >= 2

\* C17: when several drivers share the greatest strength, Wire.commit takes
\* the value of the earliest of them in registration order (the bias first of
\* all, when the greatest strength is -1), whatever the later ones' values.
C17_FirstRegisteredWins ==
    \A w \in DOMAIN wires :
        (Committed(w) /\ Tied(w)) =>
            wires[w].value = IF TopStrength(w) = -1 THEN wires[w].bias
                             ELSE DriverStates(w)[Min(TopDrivers(w))].value

\* Two drivers at the same strength 1 disagree, the first against the bias:
\* the committed wire has the first one's value.
C17_Witness ==
    /\ Committed("w")
    /\ Len(wires["w"].drivers) = 2
    /\ DriverStates("w")[1].strength = 1
    /\ DriverStates("w")[2].strength = 1
    /\ DriverStates("w")[1].value # wires["w"].bias
    /\ DriverStates("w")[2].value = wires["w"].bias
    /\ wires["w"].value = DriverStates("w")[1].value

\* The sequences of ss, one after the other.
RECURSIVE Concat(_, _)
Concat(ss, k) == IF k > Len(ss) THEN <<>> ELSE ss[k] \o Concat(ss, k + 1)

\* The components reachable from those of S through subcomponents().
RECURSIVE Descendants(_, _)
Descendants(cs, S) ==
    LET T == S \cup UNION {Range(Subcomponents(cs, c)) : c \in S}
    IN  IF T = S THEN S ELSE Descendants(cs, T)

\* C18: subcomponents_recursive() of any component is the component itself
\* followed by the whole expansion of each child in subcomponents() order;
\* it yields every component of the tree exactly once, and a transistor
\* yields itself alone.
C18_PreOrderTraversal ==
    \A id \in DOMAIN comps :
        LET all  == SubcomponentsRecursive(comps, id)
            kids == Subcomponents(comps, id)
        IN  /\ all = <<id>> \o Concat([k \in 1 .. Len(kids) |->
                                          SubcomponentsRecursive(comps, kids[k])], 1)
            /\ Range(all) = Descendants(comps, {id})
            /\ Len(all) = Cardinality(Range(all))
            /\ IsTransistor(comps[id]) => all = <<id>>

\* The ring's root has been traversed: itself, then each inverter followed
\* at once by its two transistors.
C18_Witness ==
    /\ sim.scenario = "ring"
    /\ sim.phase # "built"
    /\ SubcomponentsRecursive(comps, sim.root) =
           <<"top", "i1", "i1.ntran", "i1.ptran", "i2", "i2.ntran", "i2.ptran",
             "i3", "i3.ntran", "i3.ptran">>

\* C19: a committed wire has strength -1 or more; is_hiZ is true exactly when
\* no registered driver has strength 0 or more, and then the wire's value is
\* its bias, whatever the drivers' values.
C19_HiZIsBias ==
    \A w \in DOMAIN wires :
        Committed(w) =>
            /\ \A s \in wires[w].strength : s >= -1
            /\ IsHiZ(wires[w]).raised = "none"
            /\ IsHiZ(wires[w]).result <=>
                   \A i \in DOMAIN DriverStates(w) : DriverStates(w)[i].strength < 0
            /\ IsHiZ(wires[w]).result => wires[w].value = wires[w].bias

\* A committed wire whose only driver is released at strength -1 with a value
\* against the bias: the wire is high-impedance and keeps its bias.
C19_Witness ==
    /\ Committed("w")
    /\ Len(wires["w"].drivers) = 1
    /\ DriverStates("w")[1].strength = -1
    /\ DriverStates("w")[1].value # wires["w"].bias
    /\ IsHiZ(wires["w"]).result
    /\ wires["w"].value = wires["w"].bias

====
